---- MODULE Spec2Model ----
(***************************************************************************)
(* Model of the stock research pipeline (stock_analysis.py) and of the     *)
(* document classification framework (simple_framework.py).                *)
(*                                                                         *)
(* Text is a sequence of one-character strings, so that lower-casing,      *)
(* suffix tests and substring tests are computed rather than assumed.      *)
(* The two programs share no state; each has its own specification, in     *)
(* which the variables of the other parts stay at their idle value.        *)
(***************************************************************************)
EXTENDS Integers, Sequences, FiniteSets, TLC

VARIABLES
    \* GetStockDataTool._run
    symbol, fpc, attempts, success, result, ret,
    \* create_stock_analysis_crew / Crew.kickoff
    stock_symbol, cpc, tasks, started, outputs, exc, analysis,
    \* classify_document
    content, filename, category,
    \* process_document / process_directory
    glob_ci, dir_exists, dir, kind, dpc, files, idx, results, successful,
    failed, calls, batch, doc_path, doc_out, directory_path,
    \* search_stock_news
    npc, qidx, all_news, issued, nret,
    \* main (main.py)
    env_key, dotenv_installed, args, mpc, mlog, menus

fetchVars == <<symbol, fpc, attempts, success, result, ret>>
crewVars == <<stock_symbol, cpc, tasks, started, outputs, exc, analysis>>
classVars == <<content, filename, category>>
docVars == <<glob_ci, dir_exists, dir, kind, dpc, files, idx, results,
             successful, failed, calls, batch, doc_path, doc_out,
             directory_path>>
newsVars == <<npc, qidx, all_news, issued, nret>>
mainVars == <<env_key, dotenv_installed, args, mpc, mlog, menus>>
vars == <<fetchVars, crewVars, classVars, docVars, newsVars, mainVars>>

----------------------------------------------------------------------------
(* Text helpers *)

Min(a, b) == IF a < b THEN a ELSE b

\* All sequences over S of length 0..n
SeqsUpTo(S, n) == UNION {[1..k -> S] : k \in 0..n}

\* str.endswith
EndsWith(s, suf) ==
    /\ Len(s) >= Len(suf)
    /\ SubSeq(s, Len(s) - Len(suf) + 1, Len(s)) = suf

\* the `in` operator on strings: kw occurs as a contiguous substring of s
Contains(s, kw) ==
    \E i \in 1..(Len(s) - Len(kw) + 1) : SubSeq(s, i, i + Len(kw) - 1) = kw

UpperToLower ==
    [c \in {"A","B","C","D","E","F","G","H","I","J","K","L","M","N","O","P",
            "Q","R","S","T","U","V","W","X","Y","Z"} |->
       CASE c = "A" -> "a" [] c = "B" -> "b" [] c = "C" -> "c" [] c = "D" -> "d"
         [] c = "E" -> "e" [] c = "F" -> "f" [] c = "G" -> "g" [] c = "H" -> "h"
         [] c = "I" -> "i" [] c = "J" -> "j" [] c = "K" -> "k" [] c = "L" -> "l"
         [] c = "M" -> "m" [] c = "N" -> "n" [] c = "O" -> "o" [] c = "P" -> "p"
         [] c = "Q" -> "q" [] c = "R" -> "r" [] c = "S" -> "s" [] c = "T" -> "t"
         [] c = "U" -> "u" [] c = "V" -> "v" [] c = "W" -> "w" [] c = "X" -> "x"
         [] c = "Y" -> "y" [] c = "Z" -> "z"]

LowerChar(c) == IF c \in DOMAIN UpperToLower THEN UpperToLower[c] ELSE c

\* str.lower
Lower(s) == [i \in 1..Len(s) |-> LowerChar(s[i])]

LowerToUpper ==
    [c \in {UpperToLower[u] : u \in DOMAIN UpperToLower} |->
        CHOOSE u \in DOMAIN UpperToLower : UpperToLower[u] = c]

\* str.upper
Upper(s) ==
    [i \in 1..Len(s) |->
        IF s[i] \in DOMAIN LowerToUpper THEN LowerToUpper[s[i]] ELSE s[i]]

----------------------------------------------------------------------------
(* GetStockDataTool._run: fetch with one retry under the .NS suffix *)

MaxSymLen == 4

SymChars == {"T", ".", "N", "S"}

Symbols == SeqsUpTo(SymChars, MaxSymLen)

NS == <<".", "N", "S">>

\* Lengths of the price history the market-data service may return
\* (the code distinguishes empty, < 30, < 90, < 252 and >= 252 rows).
HistLens == {0, 1, 30, 90, 252}

\* try_fetch_stock(ticker_symbol): the market-data service either raises
\* (any exception is caught and turned into an error string with success =
\* False) or answers with a price history of some length.
try_fetch_stock(ticker_symbol, raises, hist_len) ==
    IF raises
    THEN [value |-> [kind |-> "error", symbol |-> ticker_symbol],
          success |-> FALSE]
    ELSE [value |-> [kind |-> "data", symbol |-> ticker_symbol,
                     has_returns |-> hist_len > 0,
                     m1 |-> hist_len >= 30, m3 |-> hist_len >= 90,
                     y1 |-> hist_len >= 252],
          success |-> TRUE]

\* the guard of the second attempt
RetryNeededMissingSuffixTest(ok, sym) == ~ok

RetryNeeded(ok, sym) == ~ok /\ ~EndsWith(sym, NS)

\* the symbol of the second attempt
RetrySymbol(sym) == sym \o NS

FetchInit ==
    /\ symbol \in Symbols
    /\ fpc = "start"
    /\ attempts = <<>>
    /\ success = FALSE
    /\ result = [kind |-> "none"]
    /\ ret = [kind |-> "none"]

FetchIdle ==
    /\ symbol = <<>>
    /\ fpc = "idle"
    /\ attempts = <<>>
    /\ success = FALSE
    /\ result = [kind |-> "none"]
    /\ ret = [kind |-> "none"]

\* result, success = try_fetch_stock(symbol); attempts is the log of the
\* fetch attempts made (the symbol asked for and whether it succeeded)
TryOriginal ==
    /\ fpc = "start"
    /\ \E raises \in BOOLEAN, hist_len \in HistLens :
          LET r == try_fetch_stock(symbol, raises, hist_len) IN
            /\ result' = r.value
            /\ success' = r.success
    /\ attempts' = Append(attempts, [symbol |-> symbol, ok |-> success'])
    /\ fpc' = "tried"
    /\ UNCHANGED <<symbol, ret>>

\* if not success and not symbol.endswith('.NS'): retry with symbol + ".NS"
TryWithSuffix ==
    /\ fpc = "tried"
    /\ RetryNeeded(success, symbol)
    /\ \E raises \in BOOLEAN, hist_len \in HistLens :
          LET r == try_fetch_stock(RetrySymbol(symbol), raises, hist_len) IN
            /\ result' = r.value
            /\ success' = r.success
    /\ attempts' = Append(attempts, [symbol |-> RetrySymbol(symbol),
                                     ok |-> success'])
    /\ fpc' = "retried"
    /\ UNCHANGED <<symbol, ret>>

\* if success: format the report (reading data['1_month_return'] etc., keys
\* that exist only when the history was not empty) else: return the error
FetchReturn ==
    /\ \/ fpc = "retried"
       \/ fpc = "tried" /\ ~RetryNeeded(success, symbol)
    /\ ret' = IF ~success THEN [kind |-> "error_string", symbol |-> result.symbol]
              ELSE IF ~result.has_returns THEN [kind |-> "raised_KeyError"]
              ELSE [kind |-> "report", symbol |-> result.symbol,
                    m1 |-> IF result.m1 THEN "value" ELSE "N/A",
                    m3 |-> IF result.m3 THEN "value" ELSE "N/A",
                    y1 |-> IF result.y1 THEN "value" ELSE "N/A"]
    /\ fpc' = "done"
    /\ UNCHANGED <<symbol, attempts, success, result>>

----------------------------------------------------------------------------
(* create_stock_analysis_tasks / create_stock_analysis_crew / Crew.kickoff  *)

\* context=[...] of each Task(...) as written in create_stock_analysis_tasks
\* (the first task is built without a context argument)
data_collection_context == {}

news_collection_context == {"data_collection_task"}

analysis_contextWithoutNews == {"data_collection_task"}

analysis_context == {"data_collection_task", "news_collection_task"}

recommendation_context ==
    {"data_collection_task", "news_collection_task", "analysis_task"}

\* return [data_collection_task, news_collection_task, analysis_task,
\*         recommendation_task]
create_stock_analysis_tasksNewsFirst(sym) ==
    << [name |-> "news_collection_task", context |-> news_collection_context,
        symbol |-> sym],
       [name |-> "data_collection_task", context |-> data_collection_context,
        symbol |-> sym],
       [name |-> "analysis_task", context |-> analysis_context, symbol |-> sym],
       [name |-> "recommendation_task", context |-> recommendation_context,
        symbol |-> sym] >>

create_stock_analysis_tasks(sym) ==
    << [name |-> "data_collection_task", context |-> data_collection_context,
        symbol |-> sym],
       [name |-> "news_collection_task", context |-> news_collection_context,
        symbol |-> sym],
       [name |-> "analysis_task", context |-> analysis_context, symbol |-> sym],
       [name |-> "recommendation_task", context |-> recommendation_context,
        symbol |-> sym] >>

CrewInit ==
    /\ stock_symbol \in Symbols
    /\ cpc = "start"
    /\ tasks = <<>>
    /\ started = <<>>
    /\ outputs = {}
    /\ exc = "none"
    /\ analysis = [kind |-> "none", prefix |-> "", text |-> "none"]

CrewIdle ==
    /\ stock_symbol = <<>>
    /\ cpc = "idle"
    /\ tasks = <<>>
    /\ started = <<>>
    /\ outputs = {}
    /\ exc = "none"
    /\ analysis = [kind |-> "none", prefix |-> "", text |-> "none"]

\* error_msg = f"Error during analysis: {str(e)}"
error_msgWithoutText(e) ==
    [kind |-> "error_string", prefix |-> "Error during analysis: ",
     text |-> "none"]

error_msg(e) ==
    [kind |-> "error_string", prefix |-> "Error during analysis: ", text |-> e]

\* crew = create_stock_analysis_crew(stock_symbol): the task list is built
\* and handed to Crew(tasks=tasks, process=Process.sequential)
CreateCrew ==
    /\ cpc = "start"
    /\ tasks' = create_stock_analysis_tasks(stock_symbol)
    /\ cpc' = "created"
    /\ UNCHANGED <<stock_symbol, started, outputs, exc, analysis>>

\* crew creation throws: the task list was built and Crew(...) raises
CreateCrewRaises ==
    /\ cpc = "start"
    /\ tasks' = create_stock_analysis_tasks(stock_symbol)
    /\ exc' = "crew creation failed"
    /\ cpc' = "raised"
    /\ UNCHANGED <<stock_symbol, started, outputs, analysis>>

\* crew.kickoff() under Process.sequential: the tasks of the list are run
\* one after the other in list order; a task starts when the one before it
\* has produced its output
TaskStart ==
    /\ cpc = "created"
    /\ Len(started) < Len(tasks)
    /\ started' = Append(started, tasks[Len(started) + 1].name)
    /\ cpc' = "running"
    /\ UNCHANGED <<stock_symbol, tasks, outputs, exc, analysis>>

\* the running task's agent produces the task's output
TaskFinish ==
    /\ cpc = "running"
    /\ outputs' = outputs \cup {started[Len(started)]}
    /\ cpc' = "created"
    /\ UNCHANGED <<stock_symbol, tasks, started, exc, analysis>>

\* the running task raises (the hosted model or a tool call failed) and
\* kickoff propagates the exception; its text names the task here
TaskRaise ==
    /\ cpc = "running"
    /\ exc' = started[Len(started)]
    /\ cpc' = "raised"
    /\ UNCHANGED <<stock_symbol, tasks, started, outputs, analysis>>

\* except Exception as e: analyze_stock returns the error string
AnalyzeStockExcept ==
    /\ cpc = "raised"
    /\ analysis' = error_msg(exc)
    /\ cpc' = "error"
    /\ UNCHANGED <<stock_symbol, tasks, started, outputs, exc>>

\* kickoff returns after the last task (its result is the last task's
\* output); analyze_stock returns that result
KickoffReturn ==
    /\ cpc = "created"
    /\ Len(started) = Len(tasks)
    /\ analysis' = [kind |-> "result", prefix |-> "",
                    text |-> started[Len(started)]]
    /\ cpc' = "complete"
    /\ UNCHANGED <<stock_symbol, tasks, started, outputs, exc>>

----------------------------------------------------------------------------
(* DocumentClassificationFramework.classify_document *)

\* financial_keywords
financial_keywords ==
    << <<"i","n","v","o","i","c","e">>,
       <<"p","a","y","m","e","n","t">>,
       <<"r","e","c","e","i","p","t">>,
       <<"b","u","d","g","e","t">>,
       <<"f","i","n","a","n","c","i","a","l">>,
       <<"c","o","s","t">>,
       <<"p","r","i","c","e">>,
       <<"t","o","t","a","l">>,
       <<"a","m","o","u","n","t">> >>

\* legal_keywords
legal_keywords ==
    << <<"c","o","n","t","r","a","c","t">>,
       <<"a","g","r","e","e","m","e","n","t">>,
       <<"l","e","g","a","l">>,
       <<"t","e","r","m","s">>,
       <<"p","o","l","i","c","y">>,
       <<"c","l","a","u","s","e">>,
       <<"l","i","a","b","i","l","i","t","y">>,
       <<"c","o","p","y","r","i","g","h","t">> >>

\* hr_keywords
hr_keywords ==
    << <<"r","e","s","u","m","e">>,
       <<"c","v">>,
       <<"e","m","p","l","o","y","e","e">>,
       <<"h","r">>,
       <<"p","a","y","r","o","l","l">>,
       <<"b","e","n","e","f","i","t","s">>,
       <<"h","i","r","i","n","g">>,
       <<"i","n","t","e","r","v","i","e","w">> >>

\* tech_keywords
tech_keywords ==
    << <<"t","e","c","h","n","i","c","a","l">>,
       <<"s","p","e","c","i","f","i","c","a","t","i","o","n">>,
       <<"m","a","n","u","a","l">>,
       <<"g","u","i","d","e">>,
       <<"d","o","c","u","m","e","n","t","a","t","i","o","n">>,
       <<"a","p","i">>,
       <<"s","o","f","t","w","a","r","e">> >>

\* any(keyword in content_lower or keyword in filename_lower
\*     for keyword in keywords)
AnyKeyword(keywords, content_lower, filename_lower) ==
    \E i \in 1..Len(keywords) :
        \/ Contains(content_lower, keywords[i])
        \/ Contains(filename_lower, keywords[i])

classify_documentLegalFirst(c, f) ==
    LET content_lower == Lower(c)
        filename_lower == Lower(f)
    IN  IF AnyKeyword(legal_keywords, content_lower, filename_lower)
        THEN "legal"
        ELSE IF AnyKeyword(financial_keywords, content_lower, filename_lower)
        THEN "financial"
        ELSE IF AnyKeyword(hr_keywords, content_lower, filename_lower)
        THEN "hr"
        ELSE IF AnyKeyword(tech_keywords, content_lower, filename_lower)
        THEN "technical"
        ELSE "general"

classify_documentContentOnly(c, f) ==
    LET content_lower == Lower(c)
    IN  IF AnyKeyword(financial_keywords, content_lower, <<>>)
        THEN "financial"
        ELSE IF AnyKeyword(legal_keywords, content_lower, <<>>)
        THEN "legal"
        ELSE IF AnyKeyword(hr_keywords, content_lower, <<>>)
        THEN "hr"
        ELSE IF AnyKeyword(tech_keywords, content_lower, <<>>)
        THEN "technical"
        ELSE "general"

classify_document(c, f) ==
    LET content_lower == Lower(c)
        filename_lower == Lower(f)
    IN  IF AnyKeyword(financial_keywords, content_lower, filename_lower)
        THEN "financial"
        ELSE IF AnyKeyword(legal_keywords, content_lower, filename_lower)
        THEN "legal"
        ELSE IF AnyKeyword(hr_keywords, content_lower, filename_lower)
        THEN "hr"
        ELSE IF AnyKeyword(tech_keywords, content_lower, filename_lower)
        THEN "technical"
        ELSE "general"

\* Inputs: contents are up to MaxWords words of a vocabulary joined by
\* spaces (mixed case; "three" holds the keyword "hr" inside a word), or
\* the sentence of the documented example; file names are mixed case too.
MaxWords == 2

Vocabulary ==
    << <<"I","n","v","o","i","c","e">>,
       <<"c","o","n","t","r","a","c","t">>,
       <<"R","E","S","U","M","E">>,
       <<"M","a","n","u","a","l">>,
       <<"t","h","r","e","e">>,
       <<"h","e","l","l","o">> >>

ExampleContent ==
    <<"P","l","e","a","s","e"," ","r","e","v","i","e","w"," ","t","h","e",
      " ","a","t","t","a","c","h","e","d"," ","i","n","v","o","i","c","e",
      " ","a","n","d"," ","t","o","t","a","l"," ","a","m","o","u","n","t",
      " ","d","u","e">>

FileNames ==
    << <<"d","o","c","1",".","t","x","t">>,
       <<"B","u","d","g","e","t",".","p","d","f">>,
       <<"p","o","l","i","c","y",".","d","o","c","x">>,
       <<"C","V",".","t","x","t">>,
       <<"a","p","i",".","p","n","g">>,
       <<"n","o","t","e","s",".","t","x","t">> >>

RECURSIVE JoinWords(_)
\* " ".join(words)
JoinWords(ws) ==
    IF Len(ws) = 0 THEN <<>>
    ELSE IF Len(ws) = 1 THEN ws[1]
    ELSE ws[1] \o <<" ">> \o JoinWords(Tail(ws))

Contents ==
    {JoinWords(ws) : ws \in SeqsUpTo({Vocabulary[i] : i \in 1..Len(Vocabulary)},
                                     MaxWords)}
        \cup {ExampleContent}

ClassInit ==
    /\ content \in Contents
    /\ filename \in {<<>>} \cup {FileNames[i] : i \in 1..Len(FileNames)}
    /\ category = "unset"

ClassIdle ==
    /\ content = <<>>
    /\ filename = <<>>
    /\ category = "idle"

\* category = self.classify_document(content, filename)
Classify ==
    /\ category = "unset"
    /\ category' = classify_document(content, filename)
    /\ UNCHANGED <<content, filename>>

----------------------------------------------------------------------------
(* DocumentClassificationFramework.process_document / process_directory *)

MaxFiles == 3

\* File names a directory may hold: lower-, upper- and mixed-case suffixes,
\* an unsupported suffix, and a dot-file (whose pathlib suffix is empty).
NamePool ==
    { <<"a",".","t","x","t">>,
      <<"a",".","T","X","T">>,
      <<"b",".","P","d","f">>,
      <<"c",".","x","y","z">>,
      <<".","p","n","g">> }

\* What a file yields: "text" (extraction gives text), "empty" (extraction
\* gives no text or the extraction library raised), "stat_error" (text, but
\* path.stat() raises), "dangling" (listed by the directory, but
\* path.exists() is false: a broken link or a file removed meanwhile).
Kinds == {"text", "empty", "stat_error", "dangling"}

\* supported_extensions
supported_extensions ==
    { <<".","p","d","f">>,
      <<".","d","o","c">>,
      <<".","d","o","c","x">>,
      <<".","t","x","t">>,
      <<".","j","p","g">>,
      <<".","j","p","e","g">>,
      <<".","p","n","g">> }

\* str.rfind('.'), 1-based; 0 when there is no dot
LastDot(name) ==
    IF \E i \in 1..Len(name) : name[i] = "."
    THEN CHOOSE i \in 1..Len(name) :
            /\ name[i] = "."
            /\ \A j \in (i + 1)..Len(name) : name[j] # "."
    ELSE 0

\* pathlib's PurePath.suffix: the last dot and what follows it, unless the
\* dot is the first or the last character of the name
suffix(name) ==
    LET i == LastDot(name)
    IN  IF 1 < i /\ i < Len(name) THEN SubSeq(name, i, Len(name)) ELSE <<>>

\* dir_path.glob("*" + ext): the names of the directory the pattern matches,
\* in directory order; pathlib compares case-sensitively on POSIX and
\* case-insensitively on Windows (ci)
GlobMatch(ci, name, ext) ==
    IF ci THEN EndsWith(Lower(name), Lower(ext)) ELSE EndsWith(name, ext)

glob(ci, listing, ext) ==
    SelectSeq(listing, LAMBDA n : GlobMatch(ci, n, ext))

\* All orders in which the elements of S can be listed
Orders(S) ==
    {f \in [1..Cardinality(S) -> S] : \A x \in S : \E i \in DOMAIN f : f[i] = x}

RECURSIVE find_files(_, _, _)
\* for ext in supported_extensions:
\*     files.extend(dir_path.glob(f"*{ext}"))
\*     files.extend(dir_path.glob(f"*{ext.upper()}"))
find_files(ci, listing, ext_order) ==
    IF ext_order = <<>> THEN <<>>
    ELSE glob(ci, listing, Head(ext_order))
         \o glob(ci, listing, Upper(Head(ext_order)))
         \o find_files(ci, listing, Tail(ext_order))

\* The lists the enumeration can produce: the extensions are visited in the
\* iteration order of a set and each glob lists the directory in the file
\* system's order, so both orders are arbitrary. Extensions that match no
\* file add nothing, so only the order of the others is chosen.
Enumerations(ci, d) ==
    LET hit == {e \in supported_extensions :
                  \E n \in d : GlobMatch(ci, n, e) \/ GlobMatch(ci, n, Upper(e))}
    IN  {find_files(ci, listing, ext_order) :
            listing \in Orders(d), ext_order \in Orders(hit)}

\* path.exists()
exists(d, k, name) == name \in d /\ k[name] # "dangling"

\* what the format's extraction routine returns for the file; the routines
\* (and read_text under extract_text's own try) return "" when they fail
extract_routine(k, name) ==
    IF k[name] = "empty" THEN <<>> ELSE ExampleContent

extract_textReadsAnySuffix(k, name) == extract_routine(k, name)

extract_text(k, name) ==
    LET extension == Lower(suffix(name))
    IN  IF extension \in supported_extensions
        THEN extract_routine(k, name)
        ELSE <<>>

\* len(content.split())
WordCount(text) ==
    Cardinality({i \in 1..Len(text) :
                    text[i] # " " /\ (i = 1 \/ text[i - 1] = " ")})

\* generate_summary: "This is a {category} document with {word_count} words"
\* followed by a preview of the content; kept as the two values it is built of
generate_summary(text, cat) == <<cat, WordCount(text)>>

NoResult ==
    [success |-> FALSE, error |-> "none", path |-> <<>>, file_name |-> <<>>,
     category |-> "none", word_count |-> 0, summary |-> <<>>, trace |-> <<>>]

\* the body of process_document once the path is known to exist
process_existing(k, name) ==
    LET text == extract_text(k, name)
    IN  IF text = <<>>
        THEN [NoResult EXCEPT
                !.error = "Could not extract text from document",
                !.trace = <<"extract_text">>]
        ELSE LET cat == classify_document(text, name)
                 summary == generate_summary(text, cat)
                 trace == <<"extract_text", "classify_document",
                            "generate_summary">>
             IN  IF k[name] = "stat_error"
                 THEN [NoResult EXCEPT !.error = "exception",
                                       !.trace = trace]
                 ELSE [success |-> TRUE, error |-> "", path |-> <<>>,
                       file_name |-> name, category |-> cat,
                       word_count |-> WordCount(text),
                       summary |-> summary, trace |-> trace]

\* without the path.exists() test the extraction is tried on the missing
\* file, fails and is caught inside extract_text
process_documentWithoutExistsTest(d, k, name) ==
    IF ~exists(d, k, name)
    THEN [NoResult EXCEPT !.error = "Could not extract text from document",
                          !.trace = <<"extract_text">>]
    ELSE process_existing(k, name)

\* process_document(file_path). The fields trace and path are not keys of
\* the returned dictionary: trace lists the calls the run made, path is the
\* path the error message ends with ("File not found: {file_path}").
process_document(d, k, name) ==
    IF ~exists(d, k, name)
    THEN [NoResult EXCEPT !.error = "File not found", !.path = name]
    ELSE process_existing(k, name)

\* the directory paths process_directory is called with
DirPaths == {<<"d", "o", "c", "s">>, <<"t", "m", "p">>}

NoBatch ==
    [success |-> FALSE, error |-> "none", path |-> <<>>, total_files |-> 0,
     successful |-> 0, failed |-> 0, results |-> <<>>]

\* for file_path in files: the loop goes on while entries are left
ContinueBatchUntilFailure(i, fs, rs) ==
    i <= Len(fs) /\ \A j \in 1..Len(rs) : rs[j].success

ContinueBatch(i, fs, rs) == i <= Len(fs)

\* On a case-insensitive file system two names of a directory differ in
\* more than letter case.
DirsUnder(ci) ==
    {d \in SUBSET NamePool :
        /\ Cardinality(d) <= MaxFiles
        /\ ci => \A m, n \in d : Lower(m) = Lower(n) => m = n}

DocInit ==
    /\ glob_ci \in BOOLEAN
    /\ dir_exists \in BOOLEAN
    /\ dir \in DirsUnder(glob_ci)
    /\ ~dir_exists => dir = {}
    /\ kind \in [dir -> Kinds]
    /\ dpc = "start"
    /\ files = <<>>
    /\ idx = 1
    /\ results = <<>>
    /\ successful = 0
    /\ failed = 0
    /\ calls = <<>>
    /\ batch = NoBatch
    /\ doc_path = <<>>
    /\ doc_out = NoResult
    /\ directory_path \in DirPaths

DocIdle ==
    /\ glob_ci = FALSE
    /\ dir_exists = FALSE
    /\ dir = {}
    /\ kind = <<>>
    /\ dpc = "idle"
    /\ files = <<>>
    /\ idx = 1
    /\ results = <<>>
    /\ successful = 0
    /\ failed = 0
    /\ calls = <<>>
    /\ batch = NoBatch
    /\ doc_path = <<>>
    /\ doc_out = NoResult
    /\ directory_path = <<>>

\* result = framework.process_document(file_path), called on its own
ProcessDocumentCall ==
    /\ dpc = "start"
    /\ \E p \in NamePool :
          /\ doc_path' = p
          /\ doc_out' = process_document(dir, kind, p)
    /\ dpc' = "doc_done"
    /\ UNCHANGED <<glob_ci, dir_exists, dir, kind, files, idx, results,
                   successful, failed, calls, batch, directory_path>>

\* process_directory up to the loop: the directory test, the enumeration
\* (which may raise, e.g. on a directory that cannot be read: the outer
\* handler returns the exception's text) and the test for an empty list
ProcessDirectoryFind ==
    /\ dpc = "start"
    /\ IF ~dir_exists
       THEN /\ batch' = [NoBatch EXCEPT !.error = "Directory not found",
                                        !.path = directory_path]
            /\ dpc' = "dir_done"
            /\ files' = files
       ELSE \/ /\ batch' = [NoBatch EXCEPT !.error = "exception"]
               /\ dpc' = "dir_done"
               /\ files' = files
            \/ \E fs \in Enumerations(glob_ci, dir) :
                 /\ files' = fs
                 /\ IF fs = <<>>
                    THEN /\ batch' = [NoBatch EXCEPT
                                        !.error = "No supported documents found"]
                         /\ dpc' = "dir_done"
                    ELSE /\ batch' = batch
                         /\ dpc' = "loop"
    /\ UNCHANGED <<glob_ci, dir_exists, dir, kind, idx, results, successful,
                   failed, calls, doc_path, doc_out, directory_path>>

\* one pass of the loop: process_document on the next entry, append its
\* result, count it
ProcessDirectoryStep ==
    /\ dpc = "loop"
    /\ ContinueBatch(idx, files, results)
    /\ LET r == process_document(dir, kind, files[idx])
       IN  /\ results' = Append(results, r)
           /\ successful' = IF r.success THEN successful + 1 ELSE successful
           /\ failed' = IF r.success THEN failed ELSE failed + 1
    /\ calls' = Append(calls, files[idx])
    /\ idx' = idx + 1
    /\ UNCHANGED <<glob_ci, dir_exists, dir, kind, dpc, files, batch,
                   doc_path, doc_out, directory_path>>

\* after the loop: return the batch result
ProcessDirectoryReturn ==
    /\ dpc = "loop"
    /\ ~ContinueBatch(idx, files, results)
    /\ batch' = [success |-> TRUE, error |-> "", path |-> <<>>,
                 total_files |-> Len(files),
                 successful |-> successful, failed |-> failed,
                 results |-> results]
    /\ dpc' = "dir_done"
    /\ UNCHANGED <<glob_ci, dir_exists, dir, kind, files, idx, results,
                   successful, failed, calls, doc_path, doc_out,
                   directory_path>>

----------------------------------------------------------------------------
(* search_stock_news *)

\* queries = [f"{company_name} stock news", f"{symbol} earnings news",
\*            f"{company_name} financial news"]
NumQueries == 3

\* ddgs.text(query, max_results=5, ...)
MaxResults == 5

\* all_news[:10]
ReportCap == 10

NewsInit ==
    /\ npc = "start"
    /\ qidx = 1
    /\ all_news = <<>>
    /\ issued = <<>>
    /\ nret = [kind |-> "none", items |-> <<>>]

NewsIdle ==
    /\ npc = "idle"
    /\ qidx = 1
    /\ all_news = <<>>
    /\ issued = <<>>
    /\ nret = [kind |-> "none", items |-> <<>>]

\* the news items built from the first k results of query q
Items(q, k) == [i \in 1..k |-> [query |-> q, rank |-> i]]

\* where the loop goes on after the query at position q raised: `continue`
AfterQueryErrorBreak(q) == NumQueries + 1

AfterQueryError(q) == q + 1

\* with DDGS() as ddgs: opening the search session may raise, which the
\* outer handler turns into the string "Error searching for news: ..."
OpenSession ==
    /\ npc = "start"
    /\ \E raises \in BOOLEAN :
          IF raises
          THEN /\ npc' = "done"
               /\ nret' = [kind |-> "error_string", items |-> <<>>]
          ELSE /\ npc' = "loop"
               /\ nret' = nret
    /\ UNCHANGED <<qidx, all_news, issued>>

\* one pass of `for query in queries`, ddgs.text itself raising
QueryRaises ==
    /\ npc = "loop"
    /\ qidx <= NumQueries
    /\ issued' = Append(issued, [ev |-> "query", query |-> qidx,
                                 ok |-> FALSE, n |-> 0])
    /\ qidx' = AfterQueryError(qidx)
    /\ UNCHANGED <<npc, all_news, nret>>

\* one pass of `for query in queries`, ddgs.text answering with n results.
\* Each result becomes a news item; building the item's source takes
\* href.split('/')[2], which raises IndexError on an href without two
\* slashes: bad is the rank of the first such result (n + 1: there is none).
\* The items built before it stay in all_news, and the handler skips the
\* sleep and goes to the next query.
QueryAnswers ==
    /\ npc = "loop"
    /\ qidx <= NumQueries
    /\ \E n \in 0..MaxResults :
         \E bad \in 1..(n + 1) :
            /\ all_news' = all_news \o Items(qidx, bad - 1)
            /\ IF bad <= n
               THEN /\ issued' = Append(issued,
                                   [ev |-> "query", query |-> qidx,
                                    ok |-> FALSE, n |-> n])
                    /\ qidx' = AfterQueryError(qidx)
               ELSE /\ issued' = issued \o
                                   << [ev |-> "query", query |-> qidx,
                                       ok |-> TRUE, n |-> n],
                                      [ev |-> "sleep", query |-> qidx,
                                       ok |-> TRUE, n |-> 1] >>
                    /\ qidx' = qidx + 1
    /\ UNCHANGED <<npc, nret>>

\* leaving the with block: closing the session may raise as well
CloseSession ==
    /\ npc = "loop"
    /\ qidx > NumQueries
    /\ \E raises \in BOOLEAN :
          IF raises
          THEN /\ npc' = "done"
               /\ nret' = [kind |-> "error_string", items |-> <<>>]
          ELSE /\ npc' = "format"
               /\ nret' = nret
    /\ UNCHANGED <<qidx, all_news, issued>>

\* if all_news: the report of all_news[:10], else "No recent news found"
FormatNews ==
    /\ npc = "format"
    /\ nret' = IF all_news # <<>>
               THEN [kind |-> "report",
                     items |-> SubSeq(all_news, 1,
                                      Min(ReportCap, Len(all_news)))]
               ELSE [kind |-> "no_news_string", items |-> <<>>]
    /\ npc' = "done"
    /\ UNCHANGED <<qidx, all_news, issued>>

----------------------------------------------------------------------------
(* main (main.py): the start-up test of the API key and the menu loop *)

\* the number of times the menu is shown in a run
MaxMenus == 3

\* What the user types at "Select option (1-3): "
ChoiceInputs ==
    { <<"1">>, <<" ", "2", " ">>, <<"3">>, <<"3", " ">>, <<"4">>, <<>>,
      <<"1", "3">> }

RECURSIVE LStrip(_)
LStrip(t) == IF t # <<>> /\ Head(t) = " " THEN LStrip(Tail(t)) ELSE t

RECURSIVE RStrip(_)
RStrip(t) ==
    IF t # <<>> /\ t[Len(t)] = " " THEN RStrip(SubSeq(t, 1, Len(t) - 1)) ELSE t

\* str.strip
Strip(t) == RStrip(LStrip(t))

\* if not os.getenv("GOOGLE_API_KEY"): the variable is "environ" (set in the
\* process environment), "dotenv" (set by the .env file only) or "absent"
KeyMissingNever(key, loaded) == FALSE

KeyMissing(key, loaded) ==
    ~(key = "environ" \/ (loaded /\ key = "dotenv"))

\* where the while True loop goes after a choice other than 3 was handled
\* with the given outcome: back to its top
AfterHandledStopOnFailure(outcome) ==
    IF outcome = "result:failure" THEN "returned" ELSE "menu"

AfterHandled(outcome) == "menu"

\* the values argparse gives args.file and args.batch: None, "" or a path
ArgValues == {"none", "empty", "path"}

MainInit ==
    /\ env_key \in {"environ", "dotenv", "absent"}
    /\ dotenv_installed \in BOOLEAN
    /\ args \in [file : ArgValues, batch : ArgValues, interactive : BOOLEAN]
    /\ mpc = "start"
    /\ mlog = <<>>
    /\ menus = 0

MainIdle ==
    /\ env_key = "absent"
    /\ dotenv_installed = FALSE
    /\ args = [file |-> "none", batch |-> "none", interactive |-> FALSE]
    /\ mpc = "idle"
    /\ mlog = <<>>
    /\ menus = 0

\* lines 16-29: the banner, then the test of the key; the import of dotenv
\* stands outside the try and raises out of main when the package is missing
MainCheckKey ==
    /\ mpc = "start"
    /\ IF ~KeyMissing(env_key, FALSE)
       THEN /\ mlog' = <<"banner">>
            /\ mpc' = "import"
       ELSE IF ~dotenv_installed
       THEN /\ mlog' = <<"banner">>
            /\ mpc' = "raised"
       ELSE IF KeyMissing(env_key, TRUE)
       THEN /\ mlog' = <<"banner", "no_key_error">>
            /\ mpc' = "returned"
       ELSE /\ mlog' = <<"banner">>
            /\ mpc' = "import"
    /\ UNCHANGED <<env_key, dotenv_installed, args, menus>>

\* lines 32-34 failing: the import or the constructor raises; the handlers
\* of lines 78-82 print the error and main returns
MainConstructFails ==
    /\ mpc = "import"
    /\ mlog' = Append(mlog, "error")
    /\ mpc' = "returned"
    /\ UNCHANGED <<env_key, dotenv_installed, args, menus>>

\* lines 32-50: the framework is constructed and the mode is chosen
MainConstruct ==
    /\ mpc = "import"
    /\ mpc' = IF args.file = "path" THEN "file"
              ELSE IF args.batch = "path" THEN "batch"
              ELSE "menu"
    /\ mlog' = Append(mlog, "framework")
    /\ UNCHANGED <<env_key, dotenv_installed, args, menus>>

\* lines 36-40: --file; process_document returns a success or a failure
MainFile ==
    /\ mpc = "file"
    /\ \E outcome \in {"result:success", "result:failure"} :
          mlog' = mlog \o <<"process_document", outcome>>
    /\ mpc' = "returned"
    /\ UNCHANGED <<env_key, dotenv_installed, args, menus>>

\* lines 42-46: --batch
MainBatch ==
    /\ mpc = "batch"
    /\ \E outcome \in {"result:success", "result:failure"} :
          mlog' = mlog \o <<"process_directory", outcome>>
    /\ mpc' = "returned"
    /\ UNCHANGED <<env_key, dotenv_installed, args, menus>>

\* lines 51-55: the top of the loop, the menu is printed
MenuShow ==
    /\ mpc = "menu"
    /\ menus < MaxMenus
    /\ menus' = menus + 1
    /\ mlog' = Append(mlog, "menu")
    /\ mpc' = "read_choice"
    /\ UNCHANGED <<env_key, dotenv_installed, args>>

\* input(...) raises (end of input): the handler of lines 81-82 prints the
\* error and main returns
InputRaises ==
    /\ mpc \in {"read_choice", "read_file_path", "read_dir_path"}
    /\ mlog' = Append(mlog, "error")
    /\ mpc' = "returned"
    /\ UNCHANGED <<env_key, dotenv_installed, args, menus>>

\* lines 57-76: choice = input(...).strip() and the branch on it
ReadChoice ==
    /\ mpc = "read_choice"
    /\ \E typed \in ChoiceInputs :
          LET choice == Strip(typed)
          IN  IF choice = <<"1">>
              THEN /\ mlog' = Append(mlog, "choice:1")
                   /\ mpc' = "read_file_path"
              ELSE IF choice = <<"2">>
              THEN /\ mlog' = Append(mlog, "choice:2")
                   /\ mpc' = "read_dir_path"
              ELSE IF choice = <<"3">>
              THEN /\ mlog' = mlog \o <<"choice:3", "goodbye">>
                   /\ mpc' = "returned"
              ELSE /\ mlog' = mlog \o <<"choice:other", "invalid">>
                   /\ mpc' = AfterHandled("invalid")
    /\ UNCHANGED <<env_key, dotenv_installed, args, menus>>

\* lines 60-63: the path is read; when it is not empty the document is
\* processed and the result printed
ReadFilePath ==
    /\ mpc = "read_file_path"
    /\ \E outcome \in {"no_path", "result:success", "result:failure"} :
          /\ mlog' = IF outcome = "no_path" THEN Append(mlog, outcome)
                     ELSE mlog \o <<"process_document", outcome>>
          /\ mpc' = AfterHandled(outcome)
    /\ UNCHANGED <<env_key, dotenv_installed, args, menus>>

\* lines 66-69: the same for a directory
ReadDirPath ==
    /\ mpc = "read_dir_path"
    /\ \E outcome \in {"no_path", "result:success", "result:failure"} :
          /\ mlog' = IF outcome = "no_path" THEN Append(mlog, outcome)
                     ELSE mlog \o <<"process_directory", outcome>>
          /\ mpc' = AfterHandled(outcome)
    /\ UNCHANGED <<env_key, dotenv_installed, args, menus>>

----------------------------------------------------------------------------
(* Specifications: one per program part; the other parts stay idle *)

notFetchVars == <<crewVars, classVars, docVars, newsVars, mainVars>>

notCrewVars == <<fetchVars, classVars, docVars, newsVars, mainVars>>

notClassVars == <<fetchVars, crewVars, docVars, newsVars, mainVars>>

notDocVars == <<fetchVars, crewVars, classVars, newsVars, mainVars>>

notNewsVars == <<fetchVars, crewVars, classVars, docVars, mainVars>>

InitFetch == FetchInit /\ CrewIdle /\ ClassIdle /\ DocIdle /\ NewsIdle
    /\ MainIdle

NextFetch ==
    \/ TryOriginal /\ UNCHANGED notFetchVars
    \/ TryWithSuffix /\ UNCHANGED notFetchVars
    \/ FetchReturn /\ UNCHANGED notFetchVars

SpecFetch == InitFetch /\ [][NextFetch]_vars

InitCrew == FetchIdle /\ CrewInit /\ ClassIdle /\ DocIdle /\ NewsIdle
    /\ MainIdle

NextCrew ==
    \/ CreateCrew /\ UNCHANGED notCrewVars
    \/ CreateCrewRaises /\ UNCHANGED notCrewVars
    \/ TaskStart /\ UNCHANGED notCrewVars
    \/ TaskFinish /\ UNCHANGED notCrewVars
    \/ TaskRaise /\ UNCHANGED notCrewVars
    \/ AnalyzeStockExcept /\ UNCHANGED notCrewVars
    \/ KickoffReturn /\ UNCHANGED notCrewVars

SpecCrew == InitCrew /\ [][NextCrew]_vars

InitClass == FetchIdle /\ CrewIdle /\ ClassInit /\ DocIdle /\ NewsIdle
    /\ MainIdle

NextClass ==
    \/ Classify /\ UNCHANGED notClassVars

SpecClassify == InitClass /\ [][NextClass]_vars

InitDoc == FetchIdle /\ CrewIdle /\ ClassIdle /\ DocInit /\ NewsIdle
    /\ MainIdle

NextDoc ==
    \/ ProcessDocumentCall /\ UNCHANGED notDocVars
    \/ ProcessDirectoryFind /\ UNCHANGED notDocVars
    \/ ProcessDirectoryStep /\ UNCHANGED notDocVars
    \/ ProcessDirectoryReturn /\ UNCHANGED notDocVars

SpecDoc == InitDoc /\ [][NextDoc]_vars

InitNews == FetchIdle /\ CrewIdle /\ ClassIdle /\ DocIdle /\ NewsInit
    /\ MainIdle

NextNews ==
    \/ OpenSession /\ UNCHANGED notNewsVars
    \/ QueryRaises /\ UNCHANGED notNewsVars
    \/ QueryAnswers /\ UNCHANGED notNewsVars
    \/ CloseSession /\ UNCHANGED notNewsVars
    \/ FormatNews /\ UNCHANGED notNewsVars

SpecNews == InitNews /\ [][NextNews]_vars

notMainVars == <<fetchVars, crewVars, classVars, docVars, newsVars>>

InitMain ==
    FetchIdle /\ CrewIdle /\ ClassIdle /\ DocIdle /\ NewsIdle /\ MainInit

NextMain ==
    \/ MainCheckKey /\ UNCHANGED notMainVars
    \/ MainConstructFails /\ UNCHANGED notMainVars
    \/ MainConstruct /\ UNCHANGED notMainVars
    \/ MainFile /\ UNCHANGED notMainVars
    \/ MainBatch /\ UNCHANGED notMainVars
    \/ MenuShow /\ UNCHANGED notMainVars
    \/ InputRaises /\ UNCHANGED notMainVars
    \/ ReadChoice /\ UNCHANGED notMainVars
    \/ ReadFilePath /\ UNCHANGED notMainVars
    \/ ReadDirPath /\ UNCHANGED notMainVars

SpecMain == InitMain /\ [][NextMain]_vars

----------------------------------------------------------------------------
(* Properties *)

\* C1: in GetStockDataTool._run at most two fetch attempts are made, the
\* first with the symbol as given; when the symbol does not end with ".NS"
\* and the first attempt failed, exactly one more attempt is made, with
\* ".NS" appended; when the first attempt succeeded, or the symbol already
\* ends with ".NS", there is no second attempt.
C1_RetryOnceWithSuffix ==
    /\ Len(attempts) <= 2
    /\ fpc = "done" =>
         /\ Len(attempts) >= 1
         /\ attempts[1].symbol = symbol
         /\ IF ~attempts[1].ok /\ ~EndsWith(symbol, <<".", "N", "S">>)
            THEN /\ Len(attempts) = 2
                 /\ attempts[2].symbol = symbol \o <<".", "N", "S">>
            ELSE Len(attempts) = 1

\* a run whose first attempt failed and that retried under the suffix
C1_Witness ==
    /\ fpc = "done"
    /\ Len(attempts) = 2
    /\ ~attempts[1].ok
    /\ symbol = <<"T">>
    /\ attempts[2].symbol = <<"T", ".", "N", "S">>

DeclaredOrder ==
    <<"data_collection_task", "news_collection_task", "analysis_task",
      "recommendation_task">>

TaskNamed(n) == CHOOSE i \in 1..Len(tasks) : tasks[i].name = n

\* C2: the four steps run in the declared order, each at most once (the
\* steps started so far are a prefix of the declared order), and a step has
\* started only if every step of its context has produced its output.
C2_StepsInDeclaredOrder ==
    /\ Len(started) <= Len(DeclaredOrder)
    /\ started = SubSeq(DeclaredOrder, 1, Len(started))
    /\ \A i \in 1..Len(started) :
          tasks[TaskNamed(started[i])].context \subseteq outputs

\* a complete run: all four steps started and produced output
C2_Witness ==
    /\ cpc = "complete"
    /\ Len(started) = 4
    /\ outputs = {DeclaredOrder[i] : i \in 1..4}

\* C3: of the four tasks create_stock_analysis_tasks returns, the context
\* of the task at position i is exactly the set of the tasks before i.
C3_ContextIsAllPriorTasks ==
    cpc # "start" =>
        /\ Len(tasks) = 4
        /\ \A i \in 1..Len(tasks) :
              tasks[i].context = {tasks[j].name : j \in 1..(i - 1)}

\* the task list has been built, the last task depending on three others
C3_Witness ==
    /\ cpc = "created"
    /\ Len(tasks) = 4
    /\ Cardinality(tasks[4].context) = 3
    /\ tasks[1].context = {}

Priority == <<"financial", "legal", "hr", "technical">>

KeywordSet(cat) ==
    LET kws == CASE cat = "financial" -> financial_keywords
                 [] cat = "legal" -> legal_keywords
                 [] cat = "hr" -> hr_keywords
                 [] cat = "technical" -> tech_keywords
    IN  {kws[i] : i \in 1..Len(kws)}

\* some keyword of the category occurs in the lower-cased content or in the
\* lower-cased file name
Matches(cat) ==
    \E kw \in KeywordSet(cat) :
        Contains(Lower(content), kw) \/ Contains(Lower(filename), kw)

Classified == category \notin {"unset", "idle"}

\* C4: classify_document returns the first category, in the order
\* financial > legal > hr > technical, one of whose keywords occurs in the
\* lower-cased content or file name; so a document with a financial keyword
\* is "financial" whatever other keywords it holds, and the documented
\* example (invoice ... total amount due, doc1.txt) is "financial".
C4_FirstMatchingCategoryWins ==
    Classified =>
        /\ \A i \in 1..Len(Priority) :
              (Matches(Priority[i]) /\ \A j \in 1..(i - 1) : ~Matches(Priority[j]))
                  => category = Priority[i]
        /\ Matches("financial") => category = "financial"
        /\ (content = ExampleContent /\ filename = FileNames[1])
              => category = "financial"

\* a financial keyword in the file name only, a legal one in the content
C4_Witness ==
    /\ Classified
    /\ category = "financial"
    /\ Contains(Lower(content), <<"c","o","n","t","r","a","c","t">>)
    /\ ~Contains(Lower(content), <<"i","n","v","o","i","c","e">>)
    /\ filename = <<"B","u","d","g","e","t",".","p","d","f">>

\* C5: classify_document returns "general" exactly when no keyword of the
\* four sets occurs in the lower-cased content or file name, and always
\* returns one of the five labels.
C5_GeneralIffNoKeyword ==
    Classified =>
        /\ category \in {"financial", "legal", "hr", "technical", "general"}
        /\ category = "general" <=>
              \A i \in 1..Len(Priority) : ~Matches(Priority[i])

\* a non-empty document without any keyword
C5_Witness ==
    /\ Classified
    /\ category = "general"
    /\ content = <<"h","e","l","l","o">>
    /\ filename = <<"n","o","t","e","s",".","t","x","t">>

\* the lower-cased suffix of the name is one of the seven extensions
HasSupportedSuffix(name) == Lower(suffix(name)) \in supported_extensions

ExtractionFailure(r) ==
    /\ ~r.success
    /\ r.error = "Could not extract text from document"
    /\ r.trace = <<"extract_text">>
    /\ r.category = "none"
    /\ r.summary = <<>>

\* C6: for an existing file whose lower-cased suffix is not supported,
\* extract_text returns the empty string and process_document returns
\* success = false with "Could not extract text from document", having
\* computed no classification and no summary; alone or inside a batch.
C6_UnsupportedSuffixFails ==
    /\ (dpc = "doc_done" /\ exists(dir, kind, doc_path)
           /\ ~HasSupportedSuffix(doc_path))
          => /\ extract_text(kind, doc_path) = <<>>
             /\ ExtractionFailure(doc_out)
    /\ \A i \in 1..Len(results) :
          (exists(dir, kind, calls[i]) /\ ~HasSupportedSuffix(calls[i]))
              => ExtractionFailure(results[i])

\* an existing file with text in it and the suffix .xyz has been processed
C6_Witness ==
    /\ dpc = "doc_done"
    /\ doc_path = <<"c", ".", "x", "y", "z">>
    /\ doc_path \in dir
    /\ kind[doc_path] = "text"
    /\ ~doc_out.success

SupportedFiles == {n \in dir : HasSupportedSuffix(n)}

\* the files whose suffix is a supported extension spelled all in lower
\* case or all in upper case: the narrowest reading of "has a supported
\* extension"
PlainlySupportedFiles ==
    {n \in dir : suffix(n) \in supported_extensions
                    \cup {Upper(e) : e \in supported_extensions}}

BatchReturned == dpc = "dir_done" /\ batch.success

EntriesFor(n) == {i \in 1..Len(batch.results) : calls[i] = n}

\* C7 as stated: a returned batch has exactly one result entry per file of
\* the directory with a supported extension, total_files is the number of
\* entries, and successful + failed = total_files with successful and failed
\* counting the entries by their success flag.
C7_OneEntryPerSupportedFile ==
    BatchReturned =>
        /\ \A n \in PlainlySupportedFiles : Cardinality(EntriesFor(n)) = 1
        /\ batch.total_files = Len(batch.results)
        /\ batch.successful + batch.failed = batch.total_files
        /\ batch.successful =
              Cardinality({i \in 1..Len(batch.results) : batch.results[i].success})
        /\ batch.failed =
              Cardinality({i \in 1..Len(batch.results) : ~batch.results[i].success})

\* C8: a file's failure never stops the batch: while the loop runs the
\* entries processed so far are the first entries of the enumeration, one
\* call and one result each, and once the enumeration was not empty the
\* batch ends with every entry passed to process_document once, in
\* enumeration order, and success = true.
C8_FailureDoesNotStopBatch ==
    /\ dpc = "loop" =>
          /\ calls = SubSeq(files, 1, idx - 1)
          /\ Len(results) = Len(calls)
    /\ (dpc = "dir_done" /\ files # <<>>) =>
          /\ calls = files
          /\ batch.success
          /\ Len(batch.results) = Len(files)

\* a batch that went on after two files failed in different ways (among
\* file not found, empty extraction, exception) and then processed a third
C8_Witness ==
    /\ BatchReturned
    /\ Len(batch.results) = 3
    /\ ~batch.results[1].success
    /\ ~batch.results[2].success
    /\ batch.results[1].error # batch.results[2].error
    /\ "exception" \in {batch.results[1].error, batch.results[2].error}
    /\ batch.results[3].success

\* C9 as stated: the files process_directory processes are exactly the
\* files of the directory whose lower-cased suffix is supported, whatever
\* the letter case of the suffix.
C9_SelectionIgnoresCase ==
    (dpc = "dir_done" /\ dir_exists) =>
        {calls[i] : i \in 1..Len(calls)} = SupportedFiles

\* the queries issued so far, in the order they were issued
QueriesIssued == SelectSeq(issued, LAMBDA e : e.ev = "query")

Range(f) == {f[i] : i \in DOMAIN f}

\* the items of the queries that succeeded (answered and were read to the end)
SucceededItems ==
    UNION {Range(Items(e.query, e.n)) : e \in {x \in Range(QueriesIssued) : x.ok}}

\* the parts of C10 that do not depend on how many items are reported:
\* the function returns a string; the queries are issued in order and an
\* errored one does not end the loop; the items of the succeeded queries are
\* all in all_news, in query order; "No recent news found" is returned only
\* when no query yielded an item, and once some query yielded an item the
\* return value is the report unless the search session itself failed
\* (the only source of the "Error searching for news" string).
NewsErrorHandling ==
    /\ nret.kind \in {"none", "report", "no_news_string", "error_string"}
    /\ \A i \in 1..Len(QueriesIssued) : QueriesIssued[i].query = i
    /\ qidx > NumQueries => Len(QueriesIssued) = NumQueries
    /\ SucceededItems \subseteq Range(all_news)
    /\ \A i, j \in 1..Len(all_news) :
          i < j => all_news[i].query <= all_news[j].query
    /\ npc = "done" =>
          /\ nret.kind # "none"
          /\ nret.kind = "no_news_string" => all_news = <<>>
          /\ (nret.kind = "report") =>
                (all_news # <<>> /\ Len(QueriesIssued) = NumQueries)

\* C10 as stated: ... the results of the queries that succeeded are kept
\* and reported (every item of a succeeded query is in the report).
C10_SucceededResultsAllReported ==
    /\ NewsErrorHandling
    /\ (npc = "done" /\ nret.kind = "report")
          => SucceededItems \subseteq Range(nret.items)

\* C10, amended: search_stock_news never raises; a query that errors is
\* skipped and the remaining queries are still issued in order; the results
\* of the queries that succeeded are kept, and the first 10 collected items
\* are reported; an explanatory string instead of a report is returned only
\* when no query yielded a result or the search session itself failed.
C10_ErroredQuerySkippedFirstTenReported ==
    /\ NewsErrorHandling
    /\ (npc = "done" /\ nret.kind = "report")
          => /\ nret.items = SubSeq(all_news, 1, Min(10, Len(all_news)))
             /\ Len(all_news) <= 10 => SucceededItems \subseteq Range(nret.items)

\* the first query raised, the second answered with results, and the second
\* query's results are in the report
C10_Witness ==
    /\ npc = "done"
    /\ nret.kind = "report"
    /\ Len(QueriesIssued) = 3
    /\ ~QueriesIssued[1].ok
    /\ QueriesIssued[2].ok
    /\ QueriesIssued[2].n = 2
    /\ Range(Items(2, 2)) \subseteq Range(nret.items)

\* the tasks that produced no output although they were started
Unfinished == {started[i] : i \in 1..Len(started)} \ outputs

\* C11: analyze_stock never raises. When crew creation or kickoff throws,
\* the exception is caught and the return value is "Error during analysis: "
\* followed by the exception text; the step that threw is not run again and
\* no later step is run (the started steps are still a duplicate-free prefix
\* of the task list and the thrower is the last of them). Otherwise the
\* return value is the result of the run, after all four steps.
C11_AnalyzeStockReturnsErrorString ==
    /\ analysis.kind \in {"none", "error_string", "result"}
    /\ cpc \in {"error", "complete"} <=> analysis.kind # "none"
    /\ cpc = "error" =>
          /\ analysis.kind = "error_string"
          /\ analysis.prefix = "Error during analysis: "
          /\ analysis.text = exc
          /\ started = [i \in 1..Len(started) |-> tasks[i].name]
          /\ IF Len(started) = 0
             THEN exc = "crew creation failed"
             ELSE exc = started[Len(started)] /\ Unfinished = {exc}
    /\ cpc = "complete" =>
          /\ analysis.kind = "result"
          /\ Len(started) = 4
          /\ Unfinished = {}

\* the third step threw: two steps produced output, the fourth never ran
C11_Witness ==
    /\ cpc = "error"
    /\ analysis.text = "analysis_task"
    /\ Len(started) = 3
    /\ Cardinality(outputs) = 2

\* C15 as stated: between the end of a query and the start of the next
\* exactly one sleep occurs, whether the earlier query succeeded or
\* errored, and no sleep occurs after the last query.
C15_OneSleepBetweenQueries ==
    /\ \A i \in 1..Len(issued) :
          (issued[i].ev = "query" /\ issued[i].query < NumQueries
                /\ \E j \in (i + 1)..Len(issued) : issued[j].ev = "query")
              => /\ issued[i + 1].ev = "sleep"
                 /\ issued[i + 2].ev = "query"
    /\ \A i \in 1..Len(issued) :
          issued[i].ev = "sleep" => issued[i].query < NumQueries

\* C16 as stated: _run returns a string for every outcome of its fetch
\* attempts and never raises: the error message of the final attempt when
\* that attempt failed, else the report, in which each of the three returns
\* is a value or "N/A", also when the price history came back empty.
C16_RunAlwaysReturnsString ==
    fpc = "done" =>
        /\ ret.kind \in {"error_string", "report"}
        /\ ~success =>
              /\ ret.kind = "error_string"
              /\ ret.symbol = attempts[Len(attempts)].symbol
        /\ success =>
              /\ ret.kind = "report"
              /\ {ret.m1, ret.m3, ret.y1} \subseteq {"value", "N/A"}

FileNotFound(r, p) ==
    /\ ~r.success
    /\ r.error = "File not found"
    /\ r.path = p
    /\ r.trace = <<>>
    /\ r.category = "none"

\* C13: process_document on a path that does not exist returns success =
\* false with "File not found: <path>" and attempts no extraction and no
\* classification; process_directory on a directory that does not exist
\* returns success = false with "Directory not found: <path>" and processes
\* nothing; both always return a dictionary with a success flag (an error
\* text exactly when the flag is false) and never raise.
C13_NotFoundIsReturned ==
    /\ dpc = "doc_done" =>
          /\ doc_out.success \in BOOLEAN
          /\ doc_out.success <=> doc_out.error = ""
          /\ ~exists(dir, kind, doc_path) => FileNotFound(doc_out, doc_path)
    /\ \A i \in 1..Len(results) :
          ~exists(dir, kind, calls[i]) => FileNotFound(results[i], calls[i])
    /\ dpc = "dir_done" =>
          /\ batch.success \in BOOLEAN
          /\ batch.success <=> batch.error = ""
          /\ ~dir_exists =>
                /\ ~batch.success
                /\ batch.error = "Directory not found"
                /\ batch.path = directory_path
                /\ calls = <<>>
                /\ batch.results = <<>>

\* process_document was called on a path that is not in the directory
C13_Witness ==
    /\ dpc = "doc_done"
    /\ dir_exists
    /\ dir # {}
    /\ doc_path \notin dir
    /\ doc_out.error = "File not found"

\* the events that end the handling of a choice other than 3
Handled == {"result:success", "result:failure", "no_path", "invalid"}

\* the menu loop was entered and main has returned
LoopEnded == mpc = "returned" /\ "menu" \in Range(mlog)

\* every handled choice on record is followed by the menu, and after the
\* latest one the loop is back at its top
MenuShownAgain ==
    /\ \A i \in 1..(Len(mlog) - 1) :
          ("menu" \in Range(SubSeq(mlog, 1, i)) /\ mlog[i] \in Handled)
             => mlog[i + 1] = "menu"
    /\ ("menu" \in Range(mlog) /\ mlog[Len(mlog)] \in Handled) => mpc = "menu"

\* C12 as stated: the menu loop ends only when choice 3 is entered; after
\* choice 1, choice 2 or an invalid choice, whatever the outcome of the
\* processing, the menu is shown again and the next choice is read.
C12_LoopEndsOnlyOnChoice3 ==
    /\ LoopEnded => mlog[Len(mlog)] = "goodbye"
    /\ MenuShownAgain

\* C12 amended: the menu loop ends only when choice 3 is entered or when
\* reading a line of input raises (end of input), which the handler of main
\* reports before it returns; after choice 1, choice 2 or an invalid choice
\* whose inputs were read, whatever the outcome of the processing (a failure
\* result included), the menu is shown again and the next choice is read.
C12_LoopEndsOnChoice3OrInputError ==
    /\ LoopEnded =>
          \/ /\ mlog[Len(mlog)] = "goodbye"
             /\ mlog[Len(mlog) - 1] = "choice:3"
          \/ /\ mlog[Len(mlog)] = "error"
             /\ mlog[Len(mlog) - 1] \in {"menu", "choice:1", "choice:2"}
    /\ MenuShownAgain

\* a processing failure in the loop was followed by the menu and by the
\* reading of the next choice
C12_Witness ==
    \E i \in 1..(Len(mlog) - 2) :
       /\ mlog[i] = "result:failure"
       /\ "menu" \in Range(SubSeq(mlog, 1, i))
       /\ mlog[i + 1] = "menu"
       /\ mlog[i + 2] \in {"choice:1", "choice:2", "choice:3", "choice:other"}

\* C14: when GOOGLE_API_KEY is absent, also after the .env file was loaded,
\* main prints the error message and returns before the framework is
\* constructed: nothing is processed and the menu is never entered, whatever
\* the command-line flags.
C14_NoKeyReturnsBeforeFramework ==
    env_key = "absent" =>
       /\ Range(mlog) \cap
             {"framework", "process_document", "process_directory", "menu"}
          = {}
       /\ mpc \notin {"import", "file", "batch", "menu", "read_choice",
                      "read_file_path", "read_dir_path"}
       /\ (dotenv_installed /\ mpc # "start") =>
             /\ mpc = "returned"
             /\ mlog = <<"banner", "no_key_error">>

\* main returned on the missing key although --file was given
C14_Witness ==
    /\ env_key = "absent"
    /\ args.file = "path"
    /\ mpc = "returned"
    /\ mlog = <<"banner", "no_key_error">>

====
